---- MODULE Spec2Model ----
(***************************************************************************)
(* Scroll coordination of a chat message list: the useAutoScroll hook in   *)
(* its observer-driven form (isScrollingProgrammaticallyRef guard) and the *)
(* ChatAutoScroll component that hosts it.  One action per handler,        *)
(* callback or browser step; every action ends with the React render that  *)
(* follows it (derived showScrollButton, the auto-scroll effect).          *)
(***************************************************************************)
EXTENDS Integers, Sequences, FiniteSets, TLC

\* ---- bounds of the model ------------------------------------------------
MaxMessages == 3      \* messages.length stays in 0..MaxMessages
ClientHeight == 1     \* container.clientHeight, in message heights
MaxFrames == 2        \* pending requestAnimationFrame callbacks
MaxTimers == 2        \* pending setTimeout callbacks
LiveMaxMessages == 2  \* messages.length under LiveSpec

\* ---- program constants --------------------------------------------------
SmoothDelay == 500    \* release delay of a smooth scrollToBottom
SettleDelay == 500    \* settle delay of handleLoadOldMessages
NoAnim == -1          \* no smooth scroll animation is running

VARIABLES
    isAtBottom,                   \* useState(true)
    shouldAutoScroll,             \* useState(true)
    isUserScrolling,              \* useState(false)
    isLoadingOldMessages,         \* useState(false)
    isScrollingProgrammatically,  \* isScrollingProgrammaticallyRef.current
    showScrollButton,             \* the value rendered into the button's class
    messagesLength,               \* prop: messages.length
    isStreaming,                  \* prop
    scrollTop,                    \* container.scrollTop
    anim,                         \* target of the running smooth scroll, or NoAnim
    scrollEventPending,           \* a raw scroll event waits to be dispatched
    frames,                       \* requestAnimationFrame callbacks, in order
    timers,                       \* setTimeout callbacks, in order of creation
    last,                         \* history: the step just taken
    armed,                        \* history: the last content-count increase found
                                  \*   Auto-Follow and At-Bottom true and no frame pending
    autoCalls,                    \* history: auto-follow scrollToBottom calls since then
    scen                          \* history: the scenario being followed

hookVars == <<isAtBottom, shouldAutoScroll, isUserScrolling, isLoadingOldMessages,
              isScrollingProgrammatically, showScrollButton>>
domVars == <<scrollTop, anim, scrollEventPending>>
histVars == <<last, armed, autoCalls, scen>>
vars == <<hookVars, messagesLength, isStreaming, domVars, frames, timers, histVars>>

Min(a, b) == IF a < b THEN a ELSE b
Max(a, b) == IF a > b THEN a ELSE b

\* ---- geometry of the scrollable container -------------------------------
ScrollHeightOf(n) == Max(ClientHeight, n)
ScrollHeight == ScrollHeightOf(messagesLength)
MaxTopOf(n) == ScrollHeightOf(n) - ClientHeight
MaxTop == MaxTopOf(messagesLength)
Clamp(t, n) == Max(0, Min(t, MaxTopOf(n)))

\* the zero-height anchor after the last message intersects the container
AnchorVisible == scrollTop >= MaxTop

\* ---- useAutoScroll ------------------------------------------------------

\* the button shown whatever isAtBottom says
ShowScrollButtonIgnoringBottom(atBottom, loading, userScrolling) ==
    ~loading /\ userScrolling

\* line 151: const showScrollButton = !isAtBottom && !isLoadingOldMessages && isUserScrolling
ShowScrollButton(atBottom, loading, userScrolling) ==
    ~atBottom /\ ~loading /\ userScrolling

\* a requestAnimationFrame callback: the auto-scroll effect's closure
\* (scrollToBottom(!isStreaming), isStreaming captured when scheduled) or the
\* offset compensation of handleLoadOldMessages (captured offset and extent)
ScrollFrame(smooth) ==
    [type |-> "scroll", smooth |-> smooth, top |-> 0, height |-> 0]
CompensateFrame(top, height) ==
    [type |-> "compensate", smooth |-> FALSE, top |-> top, height |-> height]

\* a setTimeout callback
Timer(type, delay) == [type |-> type, delay |-> delay]

\* the number of auto-scroll frame callbacks among fr
RECURSIVE ScrollCount(_)
ScrollCount(fr) ==
    IF fr = <<>> THEN 0
    ELSE (IF Head(fr).type = "scroll" THEN 1 ELSE 0) + ScrollCount(Tail(fr))

\* which dependency of the auto-scroll effect changed in this render
DepsChanged ==
    <<messagesLength', isStreaming', shouldAutoScroll', isAtBottom'>>
        # <<messagesLength, isStreaming, shouldAutoScroll, isAtBottom>>

\* the effect without its dependency list: it runs after every render
AutoScrollEffectEveryRender(fr) ==
    IF shouldAutoScroll' /\ isAtBottom'
    THEN Append(fr, ScrollFrame(~isStreaming'))
    ELSE fr

\* the effect asking for a smooth scroll whatever isStreaming is
AutoScrollEffectAlwaysSmooth(fr) ==
    IF DepsChanged /\ shouldAutoScroll' /\ isAtBottom'
    THEN Append(fr, ScrollFrame(TRUE))
    ELSE fr

\* lines 110-117: the auto-scroll effect, run after a render in which one of
\* its dependencies changed; fr holds the frame callbacks requested so far
AutoScrollEffect(fr) ==
    IF DepsChanged /\ shouldAutoScroll' /\ isAtBottom'
    THEN Append(fr, ScrollFrame(~isStreaming'))
    ELSE fr

\* the render that follows every handler: derived value and effects
Render(fr) ==
    /\ showScrollButton' =
           ShowScrollButton(isAtBottom', isLoadingOldMessages', isUserScrolling')
    /\ frames' = AutoScrollEffect(fr)
    /\ Len(frames') <= MaxFrames

\* lines 92-96: messagesEndRef.current.scrollIntoView({behavior, block: 'end'})
\* an instant scroll moves the offset at once; a smooth one starts an
\* animation towards the bottom as it is now
ScrollIntoView(smooth) ==
    IF smooth
    THEN /\ scrollTop' = scrollTop
         /\ anim' = (IF scrollTop < MaxTop THEN MaxTop ELSE NoAnim)
         /\ scrollEventPending' = scrollEventPending
    ELSE /\ scrollTop' = MaxTop
         /\ anim' = NoAnim
         /\ scrollEventPending' = (scrollEventPending \/ scrollTop # MaxTop)

\* scrollToBottom arming no release timer
scrollToBottomNoRelease(smooth, tm) ==
    /\ isScrollingProgrammatically' = TRUE
    /\ ScrollIntoView(smooth)
    /\ timers' = tm

\* lines 87-104: scrollToBottom(smooth); tm holds the timers set so far
scrollToBottom(smooth, tm) ==
    /\ isScrollingProgrammatically' = TRUE
    /\ ScrollIntoView(smooth)
    /\ timers' = Append(tm, Timer("release", IF smooth THEN SmoothDelay ELSE 0))
    /\ Len(timers') <= MaxTimers

\* handleScroll without the streaming guard
handleScrollNoStreamingGuard ==
    IF isScrollingProgrammatically
    THEN UNCHANGED <<isUserScrolling, shouldAutoScroll>>
    ELSE IF ~isAtBottom
         THEN isUserScrolling' = TRUE /\ shouldAutoScroll' = FALSE
         ELSE UNCHANGED <<isUserScrolling, shouldAutoScroll>>

\* lines 123-135: handleScroll
handleScroll ==
    IF isScrollingProgrammatically
    THEN UNCHANGED <<isUserScrolling, shouldAutoScroll>>
    ELSE IF ~isAtBottom /\ ~isStreaming
         THEN isUserScrolling' = TRUE /\ shouldAutoScroll' = FALSE
         ELSE UNCHANGED <<isUserScrolling, shouldAutoScroll>>

\* the observer callback re-enabling Auto-Follow and leaving User-Scrolling
observerCallbackKeepingUserScrolling(nowAtBottom) ==
    /\ isAtBottom' = nowAtBottom
    /\ IF ~isAtBottom /\ nowAtBottom /\ ~isScrollingProgrammatically
       THEN shouldAutoScroll' = TRUE /\ isUserScrolling' = isUserScrolling
       ELSE UNCHANGED <<shouldAutoScroll, isUserScrolling>>

\* the observer callback without the programmatic-scroll guard
observerCallbackUnguarded(nowAtBottom) ==
    /\ isAtBottom' = nowAtBottom
    /\ IF ~isAtBottom /\ nowAtBottom
       THEN shouldAutoScroll' = TRUE /\ isUserScrolling' = FALSE
       ELSE UNCHANGED <<shouldAutoScroll, isUserScrolling>>

\* lines 50-64: the IntersectionObserver callback for one entry; the effect
\* re-subscribes on every change of isAtBottom, so wasAtBottom is current
observerCallback(nowAtBottom) ==
    /\ isAtBottom' = nowAtBottom
    /\ IF ~isAtBottom /\ nowAtBottom /\ ~isScrollingProgrammatically
       THEN shouldAutoScroll' = TRUE /\ isUserScrolling' = FALSE
       ELSE UNCHANGED <<shouldAutoScroll, isUserScrolling>>

\* the compensation adding the new extent instead of its growth
CompensateByExtent(scrollTopBefore, scrollHeightBefore, scrollHeightAfter) ==
    scrollTopBefore + scrollHeightAfter

\* lines 237-247: scrollTopBefore + (scrollHeightAfter - scrollHeightBefore)
Compensate(scrollTopBefore, scrollHeightBefore, scrollHeightAfter) ==
    scrollTopBefore + (scrollHeightAfter - scrollHeightBefore)

\* ---- history ------------------------------------------------------------

\* nothing is pending and the view rests where the flags say
Quiet ==
    /\ frames = <<>> /\ timers = <<>> /\ anim = NoAnim
    /\ ~scrollEventPending /\ ~isScrollingProgrammatically
    /\ isAtBottom = AnchorVisible
\* the state of a freshly opened list: following at the bottom
Following ==
    /\ Quiet /\ isAtBottom /\ shouldAutoScroll /\ ~isUserScrolling
    /\ ~isLoadingOldMessages /\ ~isStreaming

CountIncreased ==
    /\ armed' = (shouldAutoScroll /\ isAtBottom /\ ScrollCount(frames) = 0)
    /\ autoCalls' = 0
\* any other event of the user or the host ends the observation
Disarmed ==
    /\ armed' = FALSE
    /\ autoCalls' = 0

\* ---- the host: content and streaming ------------------------------------

\* the host appends k content items (messages.length grows)
AppendContent(k) ==
    /\ messagesLength + k <= MaxMessages
    /\ messagesLength' = messagesLength + k
    /\ UNCHANGED <<isAtBottom, shouldAutoScroll, isUserScrolling, isLoadingOldMessages,
                   isScrollingProgrammatically, isStreaming, domVars, timers>>
    /\ last' = "append"
    /\ CountIncreased
    /\ scen' = (IF Following THEN "A" ELSE "none")
    /\ Render(frames)

\* the host toggles isStreaming
SetStreaming ==
    /\ isStreaming' = ~isStreaming
    /\ UNCHANGED <<isAtBottom, shouldAutoScroll, isUserScrolling, isLoadingOldMessages,
                   isScrollingProgrammatically, messagesLength, domVars, timers>>
    /\ last' = "streaming"
    /\ UNCHANGED <<armed, autoCalls>>
    /\ scen' = "none"
    /\ Render(frames)

\* ---- the browser --------------------------------------------------------

\* the user scrolls the container to offset p
UserScroll(p) ==
    /\ p \in 0..MaxTop /\ p # scrollTop
    /\ scrollTop' = p
    /\ anim' = NoAnim
    /\ scrollEventPending' = TRUE
    /\ UNCHANGED <<isAtBottom, shouldAutoScroll, isUserScrolling, isLoadingOldMessages,
                   isScrollingProgrammatically, messagesLength, isStreaming, timers>>
    /\ last' = "userScroll"
    /\ Disarmed
    /\ scen' = (IF p < MaxTop /\ (Following \/ scen = "B") THEN "B" ELSE "none")
    /\ Render(frames)

\* the running smooth scroll advances by one step
AnimStep ==
    /\ anim # NoAnim
    /\ LET target == Min(anim, MaxTop) IN
       IF scrollTop < target
       THEN /\ scrollTop' = scrollTop + 1
            /\ scrollEventPending' = TRUE
            /\ anim' = (IF scrollTop + 1 = target THEN NoAnim ELSE anim)
       ELSE /\ anim' = NoAnim
            /\ UNCHANGED <<scrollTop, scrollEventPending>>
    /\ UNCHANGED <<isAtBottom, shouldAutoScroll, isUserScrolling, isLoadingOldMessages,
                   isScrollingProgrammatically, messagesLength, isStreaming, timers>>
    /\ last' = "animStep"
    /\ UNCHANGED <<armed, autoCalls, scen>>
    /\ Render(frames)

\* line 279: onScroll={handleScroll}, the pending raw scroll event is dispatched
OnScroll ==
    /\ scrollEventPending
    /\ scrollEventPending' = FALSE
    /\ handleScroll
    /\ UNCHANGED <<isAtBottom, isLoadingOldMessages, isScrollingProgrammatically,
                   messagesLength, isStreaming, scrollTop, anim, timers>>
    /\ last' = "handleScroll"
    /\ UNCHANGED <<armed, autoCalls, scen>>
    /\ Render(frames)

\* the observer reports that the anchor's visibility differs from isAtBottom
ObserverCallback ==
    /\ AnchorVisible # isAtBottom
    /\ observerCallback(AnchorVisible)
    /\ UNCHANGED <<isLoadingOldMessages, isScrollingProgrammatically,
                   messagesLength, isStreaming, domVars, timers>>
    /\ last' = "observer"
    /\ UNCHANGED <<armed, autoCalls, scen>>
    /\ Render(frames)

\* ---- deferred callbacks -------------------------------------------------

RemoveAt(seq, i) == SubSeq(seq, 1, i - 1) \o SubSeq(seq, i + 1, Len(seq))

\* a timer fires once every timer set before it with no longer a delay has
CanFire(i) ==
    /\ i \in 1..Len(timers)
    /\ \A j \in 1..(i - 1) : timers[j].delay > timers[i].delay

\* the frame callback re-reading the flags before it scrolls
AutoScrollFrameRechecking ==
    /\ frames # <<>>
    /\ Head(frames).type = "scroll"
    /\ IF shouldAutoScroll /\ isAtBottom
       THEN /\ scrollToBottom(Head(frames).smooth, timers)
            /\ autoCalls' = (IF armed THEN Min(autoCalls + 1, 2) ELSE 0)
       ELSE /\ UNCHANGED <<isScrollingProgrammatically, domVars, timers>>
            /\ autoCalls' = autoCalls
    /\ UNCHANGED <<isAtBottom, shouldAutoScroll, isUserScrolling, isLoadingOldMessages,
                   messagesLength, isStreaming>>
    /\ last' = "autoScroll"
    /\ UNCHANGED <<armed, scen>>
    /\ Render(Tail(frames))

\* lines 112-115: the frame callback of the auto-scroll effect
AutoScrollFrame ==
    /\ frames # <<>>
    /\ Head(frames).type = "scroll"
    /\ scrollToBottom(Head(frames).smooth, timers)
    /\ UNCHANGED <<isAtBottom, shouldAutoScroll, isUserScrolling, isLoadingOldMessages,
                   messagesLength, isStreaming>>
    /\ last' = "autoScroll"
    /\ autoCalls' = (IF armed THEN Min(autoCalls + 1, 2) ELSE 0)
    /\ UNCHANGED <<armed, scen>>
    /\ Render(Tail(frames))

\* lines 88 and 112-115: the frame callback of the auto-scroll effect finding
\* messagesEndRef.current null (the callback is not cancelled on unmount)
AutoScrollFrameNoAnchor ==
    /\ frames # <<>>
    /\ Head(frames).type = "scroll"
    /\ UNCHANGED <<isAtBottom, shouldAutoScroll, isUserScrolling, isLoadingOldMessages,
                   isScrollingProgrammatically, messagesLength, isStreaming,
                   domVars, timers>>
    /\ last' = "autoScrollNoAnchor"
    /\ Disarmed
    /\ scen' = "none"
    /\ Render(Tail(frames))

\* lines 237-247: the frame callback of handleLoadOldMessages
CompensationFrame ==
    /\ frames # <<>>
    /\ Head(frames).type = "compensate"
    /\ scrollTop' = Clamp(Compensate(Head(frames).top, Head(frames).height, ScrollHeight),
                          messagesLength)
    /\ scrollEventPending' = (scrollEventPending \/ scrollTop' # scrollTop)
    /\ anim' = NoAnim
    /\ timers' = Append(timers, Timer("settle", SettleDelay))
    /\ Len(timers') <= MaxTimers
    /\ UNCHANGED <<isAtBottom, shouldAutoScroll, isUserScrolling, isLoadingOldMessages,
                   isScrollingProgrammatically, messagesLength, isStreaming>>
    /\ last' = "compensate"
    /\ UNCHANGED <<armed, autoCalls, scen>>
    /\ Render(Tail(frames))

\* lines 100-102: isScrollingProgrammaticallyRef.current = false
ReleaseTimer(i) ==
    /\ CanFire(i)
    /\ timers[i].type = "release"
    /\ isScrollingProgrammatically' = FALSE
    /\ timers' = RemoveAt(timers, i)
    /\ UNCHANGED <<isAtBottom, shouldAutoScroll, isUserScrolling, isLoadingOldMessages,
                   messagesLength, isStreaming, domVars>>
    /\ last' = "release"
    /\ UNCHANGED <<armed, autoCalls, scen>>
    /\ Render(frames)

\* lines 243-245: setIsLoadingOldMessages(false)
SettleTimer(i) ==
    /\ CanFire(i)
    /\ timers[i].type = "settle"
    /\ isLoadingOldMessages' = FALSE
    /\ timers' = RemoveAt(timers, i)
    /\ UNCHANGED <<isAtBottom, shouldAutoScroll, isUserScrolling,
                   isScrollingProgrammatically, messagesLength, isStreaming, domVars>>
    /\ last' = "settle"
    /\ UNCHANGED <<armed, autoCalls>>
    /\ scen' = (IF scen = "Cu" THEN "CuDone" ELSE IF scen = "Cn" THEN "CnDone" ELSE scen)
    /\ Render(frames)

\* line 221: setTimeout(() => scrollToBottom(false), 0)
NewChatTimer(i) ==
    /\ CanFire(i)
    /\ timers[i].type = "newChat"
    /\ scrollToBottom(FALSE, RemoveAt(timers, i))
    /\ UNCHANGED <<isAtBottom, shouldAutoScroll, isUserScrolling, isLoadingOldMessages,
                   messagesLength, isStreaming>>
    /\ last' = "newChatScroll"
    /\ UNCHANGED <<armed, autoCalls, scen>>
    /\ Render(frames)

\* lines 88 and 221: the new-chat timer finding messagesEndRef.current null
NewChatTimerNoAnchor(i) ==
    /\ CanFire(i)
    /\ timers[i].type = "newChat"
    /\ timers' = RemoveAt(timers, i)
    /\ UNCHANGED <<isAtBottom, shouldAutoScroll, isUserScrolling, isLoadingOldMessages,
                   isScrollingProgrammatically, messagesLength, isStreaming, domVars>>
    /\ last' = "newChatNoAnchor"
    /\ Disarmed
    /\ scen' = "none"
    /\ Render(frames)

\* ---- the handlers of the hook and of ChatAutoScroll ---------------------

\* the click handler leaving isUserScrolling as it is
handleScrollToBottomKeepingUserScrolling ==
    /\ shouldAutoScroll' = TRUE
    /\ isUserScrolling' = isUserScrolling
    /\ scrollToBottom(TRUE, timers)
    /\ UNCHANGED <<isAtBottom, isLoadingOldMessages, messagesLength, isStreaming>>
    /\ last' = (IF last = "jump" THEN "jump2" ELSE "jump")
    /\ Disarmed
    /\ scen' = "none"
    /\ Render(frames)

\* lines 141-145: handleScrollToBottom, the click on the jump-to-bottom button
handleScrollToBottom ==
    /\ shouldAutoScroll' = TRUE
    /\ isUserScrolling' = FALSE
    /\ scrollToBottom(TRUE, timers)
    /\ UNCHANGED <<isAtBottom, isLoadingOldMessages, messagesLength, isStreaming>>
    /\ last' = (IF last = "jump" THEN "jump2" ELSE "jump")
    /\ Disarmed
    /\ scen' = "none"
    /\ Render(frames)

\* lines 208-215: handleSendMessage; onSendMessage appends the message, the
\* scroll is started on the list as it is before the render
handleSendMessage ==
    /\ ~isStreaming
    /\ messagesLength + 1 <= MaxMessages
    /\ messagesLength' = messagesLength + 1
    /\ scrollToBottom(TRUE, timers)
    /\ UNCHANGED <<isAtBottom, shouldAutoScroll, isUserScrolling, isLoadingOldMessages,
                   isStreaming>>
    /\ last' = "send"
    /\ CountIncreased
    /\ scen' = "none"
    /\ Render(frames)

\* lines 218-222: handleNewChat; onNewChat empties the list
handleNewChat ==
    /\ isLoadingOldMessages' = FALSE
    /\ messagesLength' = 0
    /\ scrollTop' = Clamp(scrollTop, 0)
    /\ scrollEventPending' = (scrollEventPending \/ scrollTop' # scrollTop)
    /\ anim' = NoAnim
    /\ timers' = Append(timers, Timer("newChat", 0))
    /\ Len(timers') <= MaxTimers
    /\ UNCHANGED <<isAtBottom, shouldAutoScroll, isUserScrolling,
                   isScrollingProgrammatically, isStreaming>>
    /\ last' = "newChat"
    /\ Disarmed
    /\ scen' = "none"
    /\ Render(frames)

\* lines 225-248: handleLoadOldMessages; onLoadOldMessages inserts k older
\* items above the viewport
handleLoadOldMessages(k) ==
    /\ messagesLength + k <= MaxMessages
    /\ isLoadingOldMessages' = TRUE
    /\ messagesLength' = messagesLength + k
    /\ UNCHANGED <<isAtBottom, shouldAutoScroll, isUserScrolling,
                   isScrollingProgrammatically, isStreaming, domVars, timers>>
    /\ last' = "loadOld"
    /\ IF k > 0 THEN CountIncreased ELSE Disarmed
    /\ scen' = (IF Quiet THEN (IF isUserScrolling THEN "Cu" ELSE "Cn") ELSE "none")
    /\ Render(Append(frames,
                     CompensateFrame(scrollTop, ScrollHeight)))

\* lines 226-229: handleLoadOldMessages finding chatMessagesRef.current null;
\* it returns after setIsLoadingOldMessages(true)
handleLoadOldMessagesNoContainer ==
    /\ isLoadingOldMessages' = TRUE
    /\ UNCHANGED <<isAtBottom, shouldAutoScroll, isUserScrolling,
                   isScrollingProgrammatically, messagesLength, isStreaming,
                   domVars, timers>>
    /\ last' = "loadOldNoContainer"
    /\ Disarmed
    /\ scen' = "none"
    /\ Render(frames)

\* ---- the specification --------------------------------------------------

\* the state after mount: the flags as useState sets them, an empty list,
\* and the frame callback the auto-scroll effect requests on its first run
Init ==
    /\ isAtBottom = TRUE
    /\ shouldAutoScroll = TRUE
    /\ isUserScrolling = FALSE
    /\ isLoadingOldMessages = FALSE
    /\ isScrollingProgrammatically = FALSE
    /\ showScrollButton = FALSE
    /\ messagesLength = 0
    /\ isStreaming = FALSE
    /\ scrollTop = 0
    /\ anim = NoAnim
    /\ scrollEventPending = FALSE
    /\ frames = <<ScrollFrame(TRUE)>>
    /\ timers = <<>>
    /\ last = "mount"
    /\ armed = FALSE
    /\ autoCalls = 0
    /\ scen = "none"

Next ==
    \/ \E k \in 1..MaxMessages : AppendContent(k)
    \/ SetStreaming
    \/ \E p \in 0..MaxMessages : UserScroll(p)
    \/ AnimStep
    \/ OnScroll
    \/ ObserverCallback
    \/ AutoScrollFrame
    \/ CompensationFrame
    \/ \E i \in 1..MaxTimers : ReleaseTimer(i)
    \/ \E i \in 1..MaxTimers : SettleTimer(i)
    \/ \E i \in 1..MaxTimers : NewChatTimer(i)
    \/ handleScrollToBottom
    \/ handleSendMessage
    \/ handleNewChat
    \/ \E k \in 0..MaxMessages : handleLoadOldMessages(k)
    \/ AutoScrollFrameNoAnchor
    \/ \E i \in 1..MaxTimers : NewChatTimerNoAnchor(i)
    \/ handleLoadOldMessagesNoContainer

Spec == Init /\ [][Next]_vars

\* the browser runs every pending timer callback and every pending animation-
\* frame callback: none of them is cancelled anywhere in the code
TimersFire ==
    /\ WF_vars(\E i \in 1..MaxTimers : ReleaseTimer(i))
    /\ WF_vars(\E i \in 1..MaxTimers : SettleTimer(i))
    /\ WF_vars(\E i \in 1..MaxTimers : NewChatTimer(i) \/ NewChatTimerNoAnchor(i))
FramesFire ==
    /\ WF_vars(AutoScrollFrame \/ AutoScrollFrameNoAnchor)
    /\ WF_vars(CompensationFrame)
\* the same program on a shorter list, with the callbacks firing
LiveNext ==
    \/ \E k \in 1..LiveMaxMessages :
           AppendContent(k) /\ messagesLength' <= LiveMaxMessages
    \/ SetStreaming
    \/ \E p \in 0..LiveMaxMessages : UserScroll(p)
    \/ AnimStep
    \/ OnScroll
    \/ ObserverCallback
    \/ AutoScrollFrame
    \/ CompensationFrame
    \/ \E i \in 1..MaxTimers : ReleaseTimer(i)
    \/ \E i \in 1..MaxTimers : SettleTimer(i)
    \/ \E i \in 1..MaxTimers : NewChatTimer(i)
    \/ handleScrollToBottom
    \/ handleSendMessage /\ messagesLength' <= LiveMaxMessages
    \/ handleNewChat
    \/ \E k \in 0..LiveMaxMessages :
           handleLoadOldMessages(k) /\ messagesLength' <= LiveMaxMessages
    \/ AutoScrollFrameNoAnchor
    \/ \E i \in 1..MaxTimers : NewChatTimerNoAnchor(i)
    \/ handleLoadOldMessagesNoContainer
LiveSpec == Init /\ [][LiveNext]_vars /\ TimersFire /\ FramesFire

\* ---- the claims ---------------------------------------------------------

\* C1: in every reachable state the jump-to-bottom button is shown iff
\* At-Bottom is false, Loading-Older-Content is false and User-Scrolling is
\* true; in particular it is never shown while isAtBottom is true.
C1_AffordanceRule ==
    /\ showScrollButton <=> (~isAtBottom /\ ~isLoadingOldMessages /\ isUserScrolling)
    /\ showScrollButton => ~isAtBottom
\* the button is shown, after a scroll event marked the user as scrolling
C1_Witness == showScrollButton /\ last = "handleScroll"

CountIncreaseStep == messagesLength' > messagesLength
C2_IncreaseSchedulesOne ==
    CountIncreaseStep /\ shouldAutoScroll /\ isAtBottom
        => ScrollCount(frames') = ScrollCount(frames) + 1
C2_FrameCallsOnce ==
    last' = "autoScroll"
        => /\ ScrollCount(frames') = ScrollCount(frames) - 1
           /\ isScrollingProgrammatically'
           /\ timers' = Append(timers, Timer("release",
                  IF Head(frames).smooth THEN SmoothDelay ELSE 0))
SuppressedEvent ==
    isScrollingProgrammatically /\ last' \in {"handleScroll", "observer"}
C3_NoFlagStep ==
    SuppressedEvent => UNCHANGED <<isAtBottom, shouldAutoScroll, isUserScrolling>>
\* C3 as claimed: a raw scroll event or a visibility callback received while
\* the programmatic-scroll flag is true changes none of At-Bottom, Auto-Follow
\* and User-Scrolling.
C3_NoFlagMutation == [][C3_NoFlagStep]_vars

C3_NoFollowStep ==
    SuppressedEvent
        => /\ UNCHANGED <<shouldAutoScroll, isUserScrolling>>
           /\ (last' = "handleScroll" => UNCHANGED isAtBottom)
           /\ (last' = "observer" => isAtBottom' = AnchorVisible)
\* C3 as amended: such an event changes neither Auto-Follow nor
\* User-Scrolling; a scroll event leaves At-Bottom alone too, while the
\* visibility callback still records the reported visibility in At-Bottom.
C3_NoFollowMutation == [][C3_NoFollowStep]_vars
\* the observer reported the arrival at the bottom during a programmatic
\* scroll, and User-Scrolling was left set
C3_Witness ==
    /\ last = "observer" /\ isScrollingProgrammatically
    /\ isAtBottom /\ isUserScrolling /\ ~shouldAutoScroll

C4_JumpStep ==
    last' \in {"jump", "jump2"}
        => /\ shouldAutoScroll' /\ ~isUserScrolling'
           /\ isScrollingProgrammatically'
           /\ timers' = Append(timers, Timer("release", SmoothDelay))
           /\ scrollTop' = scrollTop
           /\ anim' = (IF scrollTop < MaxTop THEN MaxTop ELSE NoAnim)
\* C4: every click on jump-to-bottom sets Auto-Follow, clears User-Scrolling
\* and makes one smooth scrollToBottom call whatever At-Bottom is; a second
\* click before the first scroll completes does the same, so two clicks in
\* succession make two scroll actuations and no more.
C4_IdempotentJump == [][C4_JumpStep]_vars
\* the second of two clicks in succession, the first scroll still running
C4_Witness ==
    /\ last = "jump2" /\ anim # NoAnim /\ ~isAtBottom
    /\ shouldAutoScroll /\ ~isUserScrolling
    /\ timers = <<Timer("release", SmoothDelay), Timer("release", SmoothDelay)>>

C5_CompensationStep ==
    last' = "compensate" /\ ScrollHeight >= Head(frames).height
        => scrollTop' = Head(frames).top + (ScrollHeight - Head(frames).height)
\* C5: the compensation step sets the scroll offset to the captured offset
\* plus the growth of the scrollable extent since the capture, for every
\* captured offset and every extent before and after an insertion; an extent
\* of 2000 growing to 2800 with offset 500 gives offset 1300.
C5_OffsetPreserved ==
    /\ [][C5_CompensationStep]_vars
    /\ [](Compensate(500, 2000, 2800) = 1300)
\* a compensation moved the offset by the extent of the inserted item, away
\* from both ends of the list
C5_Witness ==
    /\ last = "compensate" /\ messagesLength = 3 /\ scrollTop = 1
    /\ scrollEventPending /\ ~isAtBottom

\* C6 as claimed: from the following state, one append of content while not
\* streaming leads to exactly one auto-follow scrollToBottom call, a smooth
\* one, and the button stays hidden throughout.
C6_ScenarioA ==
    scen = "A" => ~showScrollButton /\ autoCalls <= 1

\* C7 as claimed: once the user has scrolled away from the bottom while not
\* streaming and no programmatic scroll is in flight, and the scroll events
\* and the visibility callback have been handled in whatever order,
\* User-Scrolling is true, Auto-Follow is false and the button is shown.
C7_ScenarioB ==
    scen = "B" /\ ~scrollEventPending /\ isAtBottom = AnchorVisible
        => isUserScrolling /\ ~shouldAutoScroll /\ showScrollButton

\* every callback of the flow has run and the observer has caught up
Settled ==
    /\ frames = <<>> /\ anim = NoAnim /\ ~scrollEventPending
    /\ isAtBottom = AnchorVisible
\* C8 as claimed: from the load-older request on the button is hidden; when
\* the compensation and the settle delay are over Loading-Older-Content is
\* false and the button is shown iff User-Scrolling was true before the load
\* and the view is not at the bottom.
C8_ScenarioC ==
    /\ scen \in {"Cu", "Cn"} => ~showScrollButton
    /\ scen \in {"CuDone", "CnDone"} => ~isLoadingOldMessages
    /\ scen \in {"CuDone", "CnDone"} /\ Settled
         => (showScrollButton <=> (scen = "CuDone" /\ ~isAtBottom))

C9_ScheduleStep ==
    ScrollCount(frames') > ScrollCount(frames)
        <=> /\ messagesLength' # messagesLength \/ isStreaming' # isStreaming
            /\ shouldAutoScroll' /\ isAtBottom'
\* C9 as claimed: a scrollToBottom frame callback is scheduled in a step iff
\* that step changes the content count or the streaming flag while Auto-Follow
\* and At-Bottom are true; no other event schedules one.
C9_ScheduledOnContentChangeOnly == [][C9_ScheduleStep]_vars

C10_ScrollEventStep ==
    last' = "handleScroll"
        => /\ isStreaming => UNCHANGED <<shouldAutoScroll, isUserScrolling>>
           /\ (shouldAutoScroll /\ ~shouldAutoScroll') \/ (~isUserScrolling /\ isUserScrolling')
                => ~isScrollingProgrammatically /\ ~isAtBottom /\ ~isStreaming
           /\ ~isScrollingProgrammatically /\ ~isAtBottom /\ ~isStreaming
                => isUserScrolling' /\ ~shouldAutoScroll'
\* C10: a raw scroll event never clears Auto-Follow or sets User-Scrolling
\* while streaming is active; it does so only when no programmatic scroll is
\* in flight, At-Bottom is false and streaming is not active, and then it
\* does.
C10_StreamingGuard == [][C10_ScrollEventStep]_vars
\* a scroll event away from the bottom was handled during streaming and left
\* Auto-Follow set
C10_Witness ==
    /\ last = "handleScroll" /\ isStreaming /\ ~isAtBottom
    /\ ~isScrollingProgrammatically /\ shouldAutoScroll /\ ~isUserScrolling

C11_ScheduleStep ==
    ScrollCount(frames') > ScrollCount(frames)
        => /\ frames'[Len(frames')].type = "scroll"
           /\ frames'[Len(frames')].smooth = ~isStreaming'
C11_ActuateStep ==
    last' = "autoScroll"
        => /\ timers' = Append(timers, Timer("release",
                  IF Head(frames).smooth THEN SmoothDelay ELSE 0))
           /\ Head(frames).smooth => scrollTop' = scrollTop
           /\ ~Head(frames).smooth => scrollTop' = MaxTop /\ anim' = NoAnim
\* C11: an auto-follow scroll is scheduled smooth iff streaming is not active
\* in the render that schedules it, and it is actuated as it was scheduled
\* (an instant one jumps to the bottom and is released at once, a smooth one
\* animates and is released after the smooth delay), so a content change
\* made during streaming never gets a smooth scroll.
C11_SmoothUnlessStreaming ==
    /\ [][C11_ScheduleStep]_vars
    /\ [][C11_ActuateStep]_vars
\* a scroll scheduled during streaming is actuated instantly although
\* streaming has ended by the time its frame callback fires
C11_Witness ==
    /\ last = "autoScroll" /\ ~isStreaming /\ timers # <<>>
    /\ timers[Len(timers)] = Timer("release", 0)
    /\ frames = <<ScrollFrame(TRUE)>>

C12_RecheckStep ==
    last' = "autoScroll" /\ ~(shouldAutoScroll /\ isAtBottom)
        => UNCHANGED <<isScrollingProgrammatically, scrollTop, anim,
                       scrollEventPending, timers>>
\* C12 as claimed: a frame callback of the auto-scroll effect that fires when
\* Auto-Follow or At-Bottom has become false since it was scheduled actuates
\* no scroll: it sets no in-flight flag, moves nothing and arms no timer.
C12_FrameRereadsFlags == [][C12_RecheckStep]_vars

\* a scrollToBottom call is within its window: its release timer is pending
ReleasePending == \E i \in 1..Len(timers) : timers[i].type = "release"
\* C13 as claimed: the in-flight flag is true throughout the window of every
\* scroll the hook initiated, also when scrollToBottom is called again while
\* the release timer of an earlier call is pending: no earlier timer clears
\* the flag inside a later call's window.
C13_FlagHeldThroughWindow == ReleasePending => isScrollingProgrammatically

\* the callback that will clear Loading-Older-Content is pending
SettlePending ==
    \/ \E i \in 1..Len(frames) : frames[i].type = "compensate"
    \/ \E i \in 1..Len(timers) : timers[i].type = "settle"
\* C14 as claimed: whenever Loading-Older-Content is true, the compensation
\* frame callback or the settle timer that will clear it is pending, in every
\* state in which load-older can be requested, the container reference missing
\* included; with frame and timer callbacks firing, the flag is then always
\* cleared again.
C14_LoadingAlwaysReleased == isLoadingOldMessages => SettlePending

\* the steps that call scrollToBottom with the anchor present, and without
ScrollCallStep == last' \in {"autoScroll", "newChatScroll", "jump", "jump2", "send"}
NoAnchorCallStep == last' \in {"autoScrollNoAnchor", "newChatNoAnchor"}
RECURSIVE ReleaseCount(_)
ReleaseCount(tm) ==
    IF tm = <<>> THEN 0
    ELSE (IF Head(tm).type = "release" THEN 1 ELSE 0) + ReleaseCount(Tail(tm))
C15_CallStep ==
    /\ ScrollCallStep
         => /\ isScrollingProgrammatically'
            /\ timers'[Len(timers')].type = "release"
            /\ timers'[Len(timers')].delay \in {0, SmoothDelay}
            /\ timers'[Len(timers')].delay = SmoothDelay
                   <=> scrollTop' = scrollTop /\ last' # "newChatScroll"
                           /\ (last' = "autoScroll" => Head(frames).smooth)
            /\ timers'[Len(timers')].delay = 0
                   => scrollTop' = MaxTop' /\ anim' = NoAnim
    /\ NoAnchorCallStep
         => /\ UNCHANGED <<isScrollingProgrammatically, scrollTop, anim, scrollEventPending>>
            /\ ReleaseCount(timers') = ReleaseCount(timers)
    /\ last' = "release" => ~isScrollingProgrammatically'
    /\ ~isScrollingProgrammatically /\ isScrollingProgrammatically' => ScrollCallStep
\* C15: every scrollToBottom call that sets the in-flight flag arms a release
\* timer, of the smooth delay when smooth and of delay 0 when not; while the
\* flag is set such a timer is pending, and when timers fire the flag is always
\* cleared again; a call that finds the anchor missing sets no flag, scrolls
\* nothing and arms no timer.
C15_FlagAlwaysReleased ==
    /\ [](isScrollingProgrammatically => ReleasePending)
    /\ [][C15_CallStep]_vars
    /\ []<>~isScrollingProgrammatically

\* the release timer of a smooth scroll to the bottom of a two-item list has
\* fired and cleared the flag
C15_Witness ==
    /\ last = "release" /\ ~isScrollingProgrammatically /\ timers = <<>>
    /\ messagesLength = 2 /\ scrollTop = 1 /\ isAtBottom /\ anim = NoAnim

\* C16 as claimed: Loading-Older-Content is true at every moment a prepend is
\* in progress, which is from its load-older request until its own settle
\* timer has fired, whatever second load-older request or new-chat action
\* comes in between.
C16_LoadingWhilePrepending == SettlePending => isLoadingOldMessages

\* C17 as claimed: a prepend flow begun with User-Scrolling false and
\* Auto-Follow true leaves them so, through the compensation and the raw
\* scroll event its offset write fires, until the settle delay is over.
C17_FlowKeepsFollowFlags ==
    scen \in {"Cn", "CnDone"} => ~isUserScrolling /\ shouldAutoScroll

\* C18 as claimed: the machine never rests at the bottom, with no scroll in
\* flight and nothing pending, with Auto-Follow false or User-Scrolling true,
\* however the view arrived there.
C18_FollowingAtBottom == Quiet /\ isAtBottom => shouldAutoScroll /\ ~isUserScrolling

\* C19: in every reachable state Auto-Follow is the negation of
\* User-Scrolling: the two flags are never both true and never both false.
C19_FollowIsNotUserScrolling == shouldAutoScroll = ~isUserScrolling
\* the user scrolled away from the following state and the scroll event
\* flipped both flags together
C19_Witness ==
    /\ last = "handleScroll" /\ scen = "B" /\ ~isAtBottom
    /\ isUserScrolling /\ ~shouldAutoScroll

\* the steps the program takes by itself: callbacks, events of its own
\* scrolls, and the steps of a running smooth scroll
InternalStep ==
    last' \in {"animStep", "handleScroll", "observer", "autoScroll", "compensate",
               "release", "settle", "newChatScroll",
               "autoScrollNoAnchor", "newChatNoAnchor"}
RECURSIVE TimerCount(_, _)
TimerCount(tm, type) ==
    IF tm = <<>> THEN 0
    ELSE (IF Head(tm).type = type THEN 1 ELSE 0) + TimerCount(Tail(tm), type)
\* observer callbacks still possible while the content stays as it is
ObserverRank ==
    IF scrollTop < MaxTop
    THEN (IF isAtBottom THEN 2 ELSE 1)
    ELSE (IF isAtBottom THEN 0 ELSE 1)
\* steps left in the running smooth scroll
AnimRank ==
    IF anim = NoAnim THEN 0
    ELSE Max(0, Min(anim, MaxTop) - scrollTop) + 1
ScrollFrameWeight == 2 * (MaxMessages + 1) + 4
ObserverWeight == ScrollFrameWeight + 1
CompensateWeight == 2 * ObserverWeight + 3
\* a measure of the work the program still has to do by itself
Rank ==
    CompensateWeight * (Len(frames) - ScrollCount(frames))
    + ObserverWeight * ObserverRank
    + ScrollFrameWeight * ScrollCount(frames)
    + 3 * TimerCount(timers, "newChat")
    + TimerCount(timers, "release") + TimerCount(timers, "settle")
    + 2 * AnimRank
    + (IF scrollEventPending THEN 1 ELSE 0)
C20_InternalStepDecreases == InternalStep => Rank' < Rank
\* C20: every step the program takes by itself lowers a natural-number measure
\* of its state, so when the external events stop only finitely many steps,
\* and scroll-to-bottom actuations among them, follow: the re-runs of the
\* auto-scroll effect and the observer callbacks of its own scrolls form no
\* loop.
C20_Quiescence ==
    /\ [](Rank >= 0)
    /\ [][C20_InternalStepDecreases]_vars
\* the frame callback scheduled by the observer's report of the arrival has
\* fired at the bottom and moved nothing; the two release timers are all
\* that is left
C20_Witness ==
    /\ last = "autoScroll" /\ messagesLength = 2 /\ scrollTop = MaxTop
    /\ isAtBottom /\ anim = NoAnim /\ frames = <<>> /\ ~scrollEventPending
    /\ Len(timers) = 2 /\ Rank = 2

====
